---------------------------- MODULE Spec2Model ----------------------------
(***************************************************************************)
(* Model of the time-tunes-app focus timer.                                *)
(*                                                                         *)
(* Two revisions of the PomodoroTimer component are in the repository:     *)
(*   "alarm"  - src/unnamed/part_004: plays an alarm on completion and     *)
(*              stops (isActive: false); it does not use the streak hook.  *)
(*   "streak" - src/src/components/PomodoroTimer.tsx: calls                *)
(*              incrementStreak() on work completion and keeps running     *)
(*              (isActive: true); the page (part_006:386) mounts a second  *)
(*              instance of the useStreak hook.                            *)
(* The revision is fixed in Init and never changes.                        *)
(*                                                                         *)
(* The useStreak hook (src/unnamed/part_008:393-530) is modelled with the  *)
(* React distinction between the latest state (streak), the state the      *)
(* closures of the last render captured (rendered), and localStorage       *)
(* (storage).                                                              *)
(*                                                                         *)
(* The media controller is the third revision of YouTubeBackground         *)
(* (src/src/components/YouTubeBackground.tsx:404-694) with the volume      *)
(* handlers of the page and the timer.  A commit of new props runs the     *)
(* effect cleanup and the effects in one step; timeouts count seconds and  *)
(* fire before time passes; the two intervals may run at any moment.       *)
(***************************************************************************)
EXTENDS Integers, Sequences, FiniteSets, TLC

VARIABLES
    version,    \* which revision of PomodoroTimer is running
    timer,      \* TimerState: latest React state of the timer
    interval,   \* TRUE iff intervalRef holds a live setInterval
    today,      \* the calendar day new Date() falls on
    storage,    \* localStorage item 'pomodoro-streak'
    streak,     \* per hook instance: latest StreakData state
    rendered,   \* per hook instance: StreakData captured by the last render
    dirty,      \* per hook instance: a setStreak is pending a re-render
    saving,     \* per hook instance: its save effect is pending in this commit
    lastMut,    \* per hook instance: the last function that called setStreak
    isMinimized,\* the timer's isMinimized state
    cue,        \* what the last timer step did with the alarm audio
    expected,   \* the stored starting count plus the increments performed,
                \* -1 when not followed
    mountPc,    \* number of mount effects already run
    returned,   \* last value returned by incrementStreak
    lastOp,     \* the last operation performed, and by which hook instance
    run,        \* ticks applied since a fresh Work session was started, or -1
    roundTrip   \* pause/resume bookkeeping: the state seen at the last pause

\* the media controller (YouTubeBackground) and the page state it is given
VARIABLES
    videoId,          \* the page's selectedVideo, passed as the videoId prop
    currentTheme,     \* the ThemeProvider's currentTheme (its place in themes)
    volume,           \* the page's volume, passed as the volume prop
    muted,            \* the page's muted flag
    lastVolume,       \* the page's volume before the last mute
    isVideoLoaded,    \* the iframe is shown
    showFallback,     \* the thumbnail is shown
    iframeKey,        \* the number of forced reloads
    bufferTimeout,    \* bufferTimeout.current is not null
    stallTimer,       \* seconds left of the pending stall timeout, -1 if none
    loadTimer,        \* seconds left of the pending load timeout, -1 if none
    playbackInterval, \* the volume captured by the installed command loop
    lastPlayerState,  \* lastPlayerState.current
    isPlayingRef,     \* isPlayingRef.current
    prevVolumeRef,    \* prevVolumeRef.current
    posted,           \* the commands the last step posted to the player, in order
    awaitUnMute,      \* volume went from 0 to n > 0 and no unMute was posted since
    stallAge,         \* seconds since a Buffering/Unstarted event with no Playing,
                      \* reload or video change after it, -1 if none
    videoAge,         \* seconds since the last videoId change, -1 if none
    mounted,          \* the page with the controller is mounted
    listener,         \* the window's message listener is registered
    checkInterval,    \* the 1000 ms play check is scheduled
    escaped           \* the last step let an exception out of its callback

mediaVars == <<videoId, currentTheme, volume, muted, lastVolume, isVideoLoaded, showFallback,
               iframeKey, bufferTimeout, stallTimer, loadTimer, playbackInterval,
               lastPlayerState, isPlayingRef, prevVolumeRef, posted, awaitUnMute,
               stallAge, videoAge, mounted, listener, checkInterval, escaped>>

\* what only the unmount changes
lifeVars == <<mounted, listener, checkInterval>>

\* the timer and streak state, which the media controller never touches
timerVars == <<version, timer, interval, today, storage, streak, rendered, dirty,
               saving, lastMut, expected, isMinimized, cue, mountPc, returned, run,
               roundTrip>>

vars == <<timerVars, lastOp, mediaVars>>

-----------------------------------------------------------------------------
(* Program constants *)

DefaultSessionLength == 25
DefaultBreakLength == 5
MaxSeconds == 59

(* Bounds of the model *)

\* largest numeric count / totalSessions the model lets the hook reach
MaxCount == 2
\* the stored records of Init are dated up to MaxGap days before the first day
MaxGap == 2
\* number of midnights that may pass while the page is open
MaxDay == 1

-----------------------------------------------------------------------------
(* JavaScript values held in the fields of a StreakData object *)

Num(k)  == [t |-> "num", n |-> k]
\* toDateString() of calendar day d
DateStr(d) == [t |-> "date", n |-> d]
\* a string that is not a toDateString(); n counts characters appended by +
Str(k)  == [t |-> "str", n |-> k]
Undef   == [t |-> "undef", n |-> 0]
NaN     == [t |-> "nan", n |-> 0]
Null    == [t |-> "null", n |-> 0]

\* JavaScript  v + 1
Plus1(v) ==
    CASE v.t = "num"  -> Num(v.n + 1)
      [] v.t = "null" -> Num(1)
      [] v.t \in {"str", "date"} -> Str(v.n + 1)
      [] OTHER -> NaN

\* a fallback that drops the value it is given
OrZeroAlways(v) == Num(0)

\* JavaScript  v || 0
OrZero(v) ==
    IF v.t \in {"undef", "nan", "null"} \/ v = Num(0) THEN Num(0) ELSE v

StreakData(c, l, t) == [count |-> c, lastUpdate |-> l, totalSessions |-> t]

-----------------------------------------------------------------------------
(* localStorage items *)

\* getItem returned null
NoItem   == [k |-> "none", count |-> Undef, lastUpdate |-> Undef, totalSessions |-> Undef]
\* the empty string
EmptyTxt == [k |-> "empty", count |-> Undef, lastUpdate |-> Undef, totalSessions |-> Undef]
\* text JSON.parse rejects
BadTxt   == [k |-> "bad", count |-> Undef, lastUpdate |-> Undef, totalSessions |-> Undef]
\* the text  null
NullTxt  == [k |-> "null", count |-> Undef, lastUpdate |-> Undef, totalSessions |-> Undef]
\* a JSON number, string, boolean or array
PrimTxt  == [k |-> "prim", count |-> Undef, lastUpdate |-> Undef, totalSessions |-> Undef]
\* a JSON object; a missing field is Undef
ObjTxt(c, l, t) == [k |-> "obj", count |-> c, lastUpdate |-> l, totalSessions |-> t]

\* JSON.stringify of one field: undefined is dropped, NaN becomes null
JsonField(v) == IF v.t = "nan" THEN Null ELSE v

\* JSON.stringify(streak)
Stringify(s) ==
    ObjTxt(JsonField(s.count), JsonField(s.lastUpdate), JsonField(s.totalSessions))


-----------------------------------------------------------------------------
(* The timer: PomodoroTimer *)

Versions == {"alarm", "streak"}

\* useState<TimerState> initial value
InitialTimer ==
    [minutes |-> DefaultSessionLength, seconds |-> 0, isActive |-> FALSE,
     isSession |-> TRUE, sessionLength |-> DefaultSessionLength,
     breakLength |-> DefaultBreakLength]

\* isActive of the state a completed session leaves: the alarm revision stops,
\* the streak revision keeps running
ActiveAfterCompletion(ver) == ver = "streak"

\* a countdown that borrows 60 seconds from a minute
TickUpdaterWrap(prev, ver) ==
    IF prev.seconds > 0
      THEN [prev EXCEPT !.seconds = prev.seconds - 1]
    ELSE IF prev.minutes > 0
      THEN [prev EXCEPT !.minutes = prev.minutes - 1, !.seconds = MaxSeconds + 1]
    ELSE [prev EXCEPT !.minutes = IF prev.isSession THEN prev.breakLength
                                                    ELSE prev.sessionLength,
                      !.seconds = 0,
                      !.isSession = ~prev.isSession,
                      !.isActive = ActiveAfterCompletion(ver)]

\* the updater the interval callback hands to setTimer
TickUpdater(prev, ver) ==
    IF prev.seconds > 0
      THEN [prev EXCEPT !.seconds = prev.seconds - 1]
    ELSE IF prev.minutes > 0
      THEN [prev EXCEPT !.minutes = prev.minutes - 1, !.seconds = MaxSeconds]
    ELSE LET newIsSession == ~prev.isSession
             newMinutes == IF newIsSession THEN prev.sessionLength
                                           ELSE prev.breakLength
         IN [prev EXCEPT !.minutes = newMinutes, !.seconds = 0,
                         !.isSession = newIsSession,
                         !.isActive = ActiveAfterCompletion(ver)]

\* a toggle that restarts the current minute
ToggleUpdaterSkew(prev) == [prev EXCEPT !.isActive = ~prev.isActive, !.seconds = 0]

\* the updater of toggleTimer and of pauseResumeOnly
ToggleUpdater(prev) == [prev EXCEPT !.isActive = ~prev.isActive]

\* a reset that always restores the work duration
ResetUpdaterWork(prev) ==
    [prev EXCEPT !.minutes = prev.sessionLength, !.seconds = 0, !.isActive = FALSE]

\* the updater of resetTimer
ResetUpdater(prev) ==
    [prev EXCEPT !.minutes = IF prev.isSession THEN prev.sessionLength
                                               ELSE prev.breakLength,
                 !.seconds = 0,
                 !.isActive = FALSE]

\* the tick completes a session: minutes and seconds are both 0
Completes(prev) == prev.minutes = 0 /\ prev.seconds = 0

\* the countdown value in seconds
Remaining(t) == t.minutes * 60 + t.seconds

\* the configured duration of the current mode, in seconds
ModeDuration(t) == 60 * (IF t.isSession THEN t.sessionLength ELSE t.breakLength)

\* a session that has not been counted down yet
Fresh(t) == t.seconds = 0 /\ t.minutes = (IF t.isSession THEN t.sessionLength
                                                         ELSE t.breakLength)

-----------------------------------------------------------------------------
(* The streak hook: useStreak *)

\* the instances of the hook, in the order React runs their effects
\* (the child PomodoroTimer before the parent AppContent)
HookOrder == <<"timer", "page">>
Hooks == {HookOrder[i] : i \in 1..Len(HookOrder)}

\* the instances the running revision mounts
Mounted(ver) == IF ver = "streak" THEN Hooks ELSE {}

\* useState<StreakData> initial value
DefaultStreak(day) == StreakData(Num(0), DateStr(day), Num(0))

\* a load effect that resets every record that is not of today
LoadEffectNoGrace(saved, day) ==
    IF saved.k \in {"none", "empty"}
      THEN [set |-> FALSE, caught |-> FALSE, data |-> DefaultStreak(day)]
    ELSE IF saved.k \in {"bad", "null"}
      THEN [set |-> TRUE, caught |-> TRUE, data |-> DefaultStreak(day)]
    ELSE IF saved.lastUpdate # DateStr(day)
      THEN [set |-> TRUE, caught |-> FALSE,
            data |-> StreakData(Num(0), DateStr(day), OrZero(saved.totalSessions))]
    ELSE [set |-> TRUE, caught |-> FALSE,
          data |-> StreakData(saved.count, saved.lastUpdate, saved.totalSessions)]

\* the state the load effect sets for a stored item (set is FALSE when it
\* calls no setStreak; caught is TRUE when the catch block ran)
LoadEffect(saved, day) ==
    IF saved.k \in {"none", "empty"}
      THEN [set |-> FALSE, caught |-> FALSE, data |-> DefaultStreak(day)]
    ELSE IF saved.k \in {"bad", "null"}
      \* JSON.parse throws, or data.lastUpdate throws on null: the catch block
      THEN [set |-> TRUE, caught |-> TRUE, data |-> DefaultStreak(day)]
    ELSE LET data == StreakData(saved.count, saved.lastUpdate, saved.totalSessions)
             todayStr == DateStr(day)
             yesterdayStr == DateStr(day - 1)
         IN IF data.lastUpdate # todayStr
              THEN IF data.lastUpdate # yesterdayStr
                     THEN [set |-> TRUE, caught |-> FALSE,
                           data |-> StreakData(Num(0), todayStr,
                                               OrZero(data.totalSessions))]
                     ELSE [set |-> TRUE, caught |-> FALSE,
                           data |-> [data EXCEPT !.lastUpdate = todayStr]]
              ELSE [set |-> TRUE, caught |-> FALSE, data |-> data]

\* the updater of incrementStreak
IncrementUpdater(prev, day) ==
    StreakData(Plus1(prev.count), DateStr(day), Plus1(prev.totalSessions))

\* the value incrementStreak returns: computed from the streak of the render
\* whose closure is being called
IncrementReturn(snapshot) == Plus1(snapshot.count)

\* a reset that keeps the count
ResetStreakUpdaterKeep(prev, day) ==
    StreakData(prev.count, DateStr(day), prev.totalSessions)

\* a reset that also clears the lifetime total
ResetStreakUpdaterZero(prev, day) ==
    StreakData(Num(0), DateStr(day), Num(0))

\* the updater of resetStreak
ResetStreakUpdater(prev, day) ==
    StreakData(Num(0), DateStr(day), prev.totalSessions)


-----------------------------------------------------------------------------
(* Bookkeeping shared by the actions *)

Op(o, a) == [op |-> o, arg |-> a]

NoRoundTrip == [phase |-> "none", minutes |-> 0, seconds |-> 0, isSession |-> TRUE]

\* number of effects the mount commit runs: a load and a save per instance
MountSteps(ver) == 2 * Cardinality(Mounted(ver))

MountDone == mountPc = MountSteps(version)

\* the numeric counters stay within the bound of the model
CanIncrement(h) ==
    /\ streak[h].count.n < MaxCount
    /\ streak[h].totalSessions.n < MaxCount

\* incrementStreak() called through the closure of the last render of h
CallIncrement(h) ==
    /\ streak' = [streak EXCEPT ![h] = IncrementUpdater(streak[h], today)]
    /\ dirty' = [dirty EXCEPT ![h] = TRUE]
    /\ lastMut' = [lastMut EXCEPT ![h] = "increment"]
    /\ expected' = IF expected >= 0 THEN expected + 1 ELSE expected
    /\ returned' = IncrementReturn(rendered[h])

\* no save effect of a commit is pending
CommitDone == \A h \in Hooks : ~saving[h]

\* React is between tasks: handlers and timers may run
Ready == MountDone /\ CommitDone

-----------------------------------------------------------------------------
(* Actions of the timer *)

\* the pause / resume bookkeeping of a toggle
\* the minimized view is the one rendered
Minimized == IF version = "alarm" THEN isMinimized
                                  ELSE isMinimized /\ timer.isActive

\* what a completing tick can do with the alarm: the audio element exists in
\* the full view of the alarm revision only, and play() may be rejected
AlarmCues(ver, minimized) ==
    IF ver = "alarm" /\ ~minimized THEN {"played", "rejected"} ELSE {"none"}

ToggleRoundTrip ==
    IF timer.isActive
      THEN [phase |-> "paused", minutes |-> timer.minutes,
            seconds |-> timer.seconds, isSession |-> timer.isSession]
    ELSE IF roundTrip.phase = "paused"
      THEN [roundTrip EXCEPT !.phase = "resumed"]
    ELSE NoRoundTrip

ToggleBody(name) ==
    /\ Ready
    /\ timer' = ToggleUpdater(timer)
    \* toggleTimer minimizes when it starts the timer
    /\ isMinimized' = IF name = "toggleTimer" /\ ~timer.isActive
                        THEN TRUE ELSE isMinimized
    /\ cue' = "none"
    \* a click is a discrete event: React renders and runs the timer effect
    \* before the handler's task ends
    /\ interval' = timer'.isActive
    /\ run' = IF ~timer.isActive /\ timer.isSession /\ Fresh(timer) THEN 0 ELSE -1
    /\ roundTrip' = ToggleRoundTrip
    /\ lastOp' = Op(name, IF timer.isActive THEN "pause" ELSE "start")
    /\ UNCHANGED <<version, today, storage, streak, rendered, dirty, saving,
                   lastMut, mountPc, returned>>
    /\ UNCHANGED mediaVars
    /\ UNCHANGED expected

\* the play / pause button of the full view (and, in the streak revision, of
\* the minimized bar)
ToggleTimer ==
    /\ version = "streak" \/ ~Minimized
    /\ ToggleBody("toggleTimer")

\* the pause / resume button of the minimized bar (alarm revision only)
PauseResumeOnly ==
    /\ version = "alarm"
    /\ Minimized
    /\ ToggleBody("pauseResumeOnly")

\* the reset button
ResetTimer ==
    /\ Ready
    /\ ~Minimized
    /\ timer' = ResetUpdater(timer)
    /\ isMinimized' = FALSE
    /\ cue' = "none"
    /\ interval' = FALSE
    /\ run' = -1
    /\ roundTrip' = NoRoundTrip
    /\ lastOp' = Op("resetTimer", "none")
    /\ UNCHANGED <<version, today, storage, streak, rendered, dirty, saving,
                   lastMut, mountPc, returned>>
    /\ UNCHANGED mediaVars
    /\ UNCHANGED expected

\* the expand button of the minimized bar
ExpandTimer ==
    /\ Ready
    /\ Minimized
    /\ isMinimized' = FALSE
    /\ cue' = "none"
    /\ roundTrip' = NoRoundTrip
    /\ lastOp' = Op("expand", "none")
    /\ UNCHANGED <<version, timer, interval, today, storage, streak, rendered, dirty,
                   saving, lastMut, expected, mountPc, returned, run>>
    /\ UNCHANGED mediaVars

\* the interval callback
Tick ==
    /\ Ready
    /\ interval
    /\ LET completed == Completes(timer)
           work == completed /\ timer.isSession
       IN /\ timer' = TickUpdater(timer, version)
          /\ cue' \in (IF completed THEN AlarmCues(version, Minimized) ELSE {"none"})
          /\ lastOp' = Op("tick", IF work THEN "work"
                                  ELSE IF completed THEN "break" ELSE "none")
          /\ IF work /\ version = "streak"
               THEN CanIncrement("timer") /\ CallIncrement("timer")
               ELSE UNCHANGED <<streak, dirty, returned, lastMut, expected>>
    /\ run' = IF run >= 0 /\ run <= Remaining(InitialTimer) THEN run + 1 ELSE -1
    /\ roundTrip' = NoRoundTrip
    /\ UNCHANGED <<version, interval, today, storage, rendered, saving, mountPc,
                   isMinimized>>
    /\ UNCHANGED mediaVars

\* the timer effect after a render that a tick caused: it runs in a later task
\* than the tick, so the old interval is still live until it has run
TimerEffect ==
    /\ Ready
    /\ interval # timer.isActive
    /\ interval' = timer.isActive
    /\ UNCHANGED <<version, timer, today, storage, streak, rendered, dirty,
                   saving, lastMut, mountPc, returned, lastOp, run, roundTrip>>
    /\ UNCHANGED mediaVars
    /\ UNCHANGED expected
    /\ UNCHANGED <<isMinimized, cue>>

-----------------------------------------------------------------------------
(* Actions of the streak hook *)

\* the next effect of the mount commit: load and save of each instance in turn
MountStep ==
    /\ mountPc < MountSteps(version)
    /\ LET i == mountPc + 1
           h == HookOrder[(i + 1) \div 2]
       IN IF i % 2 = 1
            THEN LET r == LoadEffect(storage, today)
                 IN /\ streak' = IF r.set THEN [streak EXCEPT ![h] = r.data] ELSE streak
                    /\ dirty' = IF r.set THEN [dirty EXCEPT ![h] = TRUE] ELSE dirty
                    /\ lastMut' = IF r.set THEN [lastMut EXCEPT ![h] = "load"] ELSE lastMut
                    /\ lastOp' = Op("load", h)
                    /\ UNCHANGED storage
            ELSE /\ storage' = Stringify(rendered[h])
                 /\ lastOp' = Op("save", h)
                 /\ UNCHANGED <<streak, dirty, lastMut>>
    /\ mountPc' = mountPc + 1
    /\ UNCHANGED <<version, timer, interval, today, rendered, saving, returned, run, roundTrip>>
    /\ UNCHANGED mediaVars
    /\ UNCHANGED expected
    /\ UNCHANGED <<isMinimized, cue>>

\* the re-render after setStreak: the instances whose state changed capture
\* it, and their save effects are due in this commit
Render ==
    /\ Ready
    /\ \E h \in Hooks : dirty[h]
    /\ rendered' = [h \in Hooks |-> IF dirty[h] THEN streak[h] ELSE rendered[h]]
    /\ saving' = dirty
    /\ dirty' = [h \in Hooks |-> FALSE]
    /\ lastOp' = Op("render", "none")
    /\ UNCHANGED <<version, timer, interval, today, storage, streak, lastMut,
                   mountPc, returned, run, roundTrip>>
    /\ UNCHANGED mediaVars
    /\ UNCHANGED expected
    /\ UNCHANGED <<isMinimized, cue>>

\* the first instance in HookOrder whose save effect is pending
FirstSaving == HookOrder[CHOOSE i \in 1..Len(HookOrder) :
                   /\ saving[HookOrder[i]]
                   /\ \A k \in 1..(i - 1) : ~saving[HookOrder[k]]]

\* the next save effect of the commit
SaveStep ==
    /\ MountDone
    /\ ~CommitDone
    /\ LET h == FirstSaving
       IN /\ storage' = Stringify(rendered[h])
          /\ saving' = [saving EXCEPT ![h] = FALSE]
          /\ lastOp' = Op("save", h)
    /\ UNCHANGED <<version, timer, interval, today, streak, rendered, dirty,
                   lastMut, mountPc, returned, run, roundTrip>>
    /\ UNCHANGED mediaVars
    /\ UNCHANGED expected
    /\ UNCHANGED <<isMinimized, cue>>

\* a consumer of the hook calls incrementStreak
IncrementStreak(h) ==
    /\ Ready
    /\ h \in Mounted(version)
    /\ CanIncrement(h)
    /\ CallIncrement(h)
    /\ lastOp' = Op("incrementStreak", h)
    /\ UNCHANGED <<version, timer, interval, today, storage, rendered, saving,
                   mountPc, run, roundTrip>>
    /\ UNCHANGED mediaVars
    /\ UNCHANGED <<isMinimized, cue>>

\* a consumer of the hook calls resetStreak
ResetStreak(h) ==
    /\ Ready
    /\ h \in Mounted(version)
    /\ streak' = [streak EXCEPT ![h] = ResetStreakUpdater(streak[h], today)]
    /\ dirty' = [dirty EXCEPT ![h] = TRUE]
    /\ lastMut' = [lastMut EXCEPT ![h] = "reset"]
    /\ lastOp' = Op("resetStreak", h)
    /\ UNCHANGED <<version, timer, interval, today, storage, rendered, saving,
                   mountPc, returned, run, roundTrip>>
    /\ UNCHANGED mediaVars
    /\ UNCHANGED expected
    /\ UNCHANGED <<isMinimized, cue>>

\* midnight passes while the page is open
NextDay ==
    /\ Ready
    /\ today < MaxDay
    /\ today' = today + 1
    /\ UNCHANGED <<version, timer, interval, storage, streak, rendered, dirty,
                   saving, lastMut, mountPc, returned, lastOp, run, roundTrip>>
    /\ UNCHANGED mediaVars
    /\ UNCHANGED expected
    /\ UNCHANGED <<isMinimized, cue>>

-----------------------------------------------------------------------------
(* The media controller: YouTubeBackground and the volume handlers *)

\* setTimeout(..., 2000) of the load timer and setTimeout(..., 3000) of the
\* stall timer, in seconds
LoadSeconds == 2
StallSeconds == 3

\* the volumes the handlers set: mute, the un-mute default, Enable Audio
Silent == 0
DefaultVolume == 30
EnableAudioVolume == 50

\* the number of videos of the sidebar
NumVideos == 2
\* the number of slider positions above the fixed volumes
MaxSlider == 0
\* the number of forced reloads followed
MaxReloads == 1

Videos == 1..NumVideos
\* a video id that is not in the page's videos list
Unlisted == 0

\* the number of themes of the themes list
NumThemes == 3
Themes == 1..NumThemes
\* themes[0], the initial theme, and 'emerald', the theme used for a video
\* without one
DefaultTheme == 1
FallbackTheme == 2
\* a theme id that is not in the themes list
UnknownTheme == 0

\* the theme of a video of the videos list
VideoTheme(v) == ((v + 1) % NumThemes) + 1

\* setTheme: the current theme after setTheme(id)
SetThemeResult(cur, id) == IF id \in Themes THEN id ELSE cur

\* the page's theme effect: setTheme(video?.theme || 'emerald')
ThemeEffect(cur, v) ==
    SetThemeResult(cur, IF v \in Videos THEN VideoTheme(v) ELSE FallbackTheme)
SliderValues == {Silent, DefaultVolume, EnableAudioVolume}
                    \cup {EnableAudioVolume + k : k \in 1..MaxSlider}

\* the player states of onStateChange: unstarted, playing, paused, buffering
Unstarted == -1
Playing == 1
Paused == 2
Buffering == 3
PlayerStates == {Unstarted, Playing, Paused, Buffering}
\* lastPlayerState.current before the first event (null)
NoState == 0 - 2
\* playbackInterval after clearInterval
NoInterval == 0 - 1

Range(s) == {s[i] : i \in DOMAIN s}

\* a command loop that always sets the volume
LoopCommandsLoud(vol, prev) == <<"setVolume">>

\* the commands one iteration of the playbackInterval posts, for the volume
\* its closure captured and the value of prevVolumeRef.current
LoopCommands(vol, prev) ==
    IF vol = Silent
      THEN <<"mute">>
      ELSE (IF prev = Silent THEN <<"unMute">> ELSE << >>) \o <<"setVolume">>

\* a cleanup that leaves the stall timeout pending
CleanupStallLeak(ref, left) == left

\* the effect cleanup's `if (bufferTimeout.current) clearTimeout(...)`: the
\* seconds left of the stall timeout afterwards (the ref is left as it is)
CleanupStall(ref, left) == IF ref THEN -1 ELSE left

\* a handler that arms on Buffering/Unstarted and never cancels
StallAfterEventNoCancel(info, ref, left) ==
    IF info \in {Buffering, Unstarted} /\ ~ref
      THEN [ref |-> TRUE, left |-> StallSeconds, did |-> "armed"]
      ELSE [ref |-> ref, left |-> left, did |-> "none"]

\* what onStateChange does with the stall timeout: the ref, the seconds left
\* and what happened (armed, cancelled a pending timeout, cleared a stale
\* handle, none)
StallAfterEvent(info, ref, left) ==
    IF info \in {Buffering, Unstarted} /\ ~ref
      THEN [ref |-> TRUE, left |-> StallSeconds, did |-> "armed"]
    ELSE IF info = Playing /\ ref
      THEN [ref |-> FALSE, left |-> -1,
            did |-> IF left >= 0 THEN "cancelled" ELSE "cleared"]
    ELSE [ref |-> ref, left |-> left, did |-> "none"]

\* the state after the component mounted with the page's initial props
MediaInit ==
    /\ videoId = 1
    /\ currentTheme = ThemeEffect(DefaultTheme, 1)
    /\ volume = DefaultVolume
    /\ muted = FALSE
    /\ lastVolume = DefaultVolume
    /\ isVideoLoaded = FALSE
    /\ showFallback = TRUE
    /\ iframeKey = 0
    /\ bufferTimeout = FALSE
    /\ stallTimer = -1
    /\ loadTimer = LoadSeconds
    /\ playbackInterval = DefaultVolume
    /\ lastPlayerState = NoState
    /\ isPlayingRef = FALSE
    /\ prevVolumeRef = DefaultVolume
    /\ posted = << >>
    /\ awaitUnMute = FALSE
    /\ stallAge = -1
    /\ videoAge = -1
    /\ mounted = TRUE
    /\ listener = TRUE
    /\ checkInterval = TRUE
    /\ escaped = FALSE

\* the commit of a render with a new videoId or volume: the cleanup of the
\* main effect, the main effect, then the prevVolumeRef effect
EffectRun(vol) ==
    /\ showFallback' = TRUE
    /\ isVideoLoaded' = FALSE
    /\ loadTimer' = LoadSeconds
    /\ playbackInterval' = vol
    /\ stallTimer' = CleanupStall(bufferTimeout, stallTimer)
    /\ prevVolumeRef' = vol
    /\ UNCHANGED <<iframeKey, bufferTimeout, lastPlayerState, isPlayingRef>>

\* the page's setVolume(n), after `cmds` were posted by the handler
VolumeChange(n, cmds) ==
    /\ mounted
    /\ volume' = n
    /\ posted' = cmds
    /\ escaped' = FALSE
    /\ awaitUnMute' = /\ n # Silent
                      /\ awaitUnMute \/ volume = Silent
                      /\ "unMute" \notin Range(cmds)
    /\ IF n # volume
         THEN EffectRun(n)
         ELSE UNCHANGED <<showFallback, isVideoLoaded, loadTimer, playbackInterval,
                          stallTimer, prevVolumeRef, iframeKey, bufferTimeout,
                          lastPlayerState, isPlayingRef>>
    /\ UNCHANGED <<videoId, currentTheme, stallAge, videoAge, lifeVars, timerVars>>

\* the page's mute button
HandleMuteToggle ==
    /\ IF muted
         THEN /\ VolumeChange(IF lastVolume > 0 THEN lastVolume ELSE DefaultVolume, << >>)
              /\ muted' = FALSE
              /\ UNCHANGED lastVolume
         ELSE /\ lastVolume' = volume
              /\ VolumeChange(Silent, << >>)
              /\ muted' = TRUE
    /\ lastOp' = Op("handleMuteToggle", IF muted THEN "unmute" ELSE "mute")

\* the timer's volume button, through onVolumeChange
HandleVolumeToggle ==
    /\ VolumeChange(IF volume > 0 THEN Silent ELSE DefaultVolume, << >>)
    /\ lastOp' = Op("handleVolumeToggle", IF volume > 0 THEN "mute" ELSE "unmute")
    /\ UNCHANGED <<muted, lastVolume>>

\* the timer's volume slider, through onVolumeChange
HandleVolumeSliderChange(n) ==
    /\ VolumeChange(n, << >>)
    /\ lastOp' = Op("handleVolumeSliderChange", "none")
    /\ UNCHANGED <<muted, lastVolume>>

\* what every step but a video, theme or volume change or the unmount
\* leaves alone
PropsUnchanged == UNCHANGED <<videoId, currentTheme, volume, muted, lastVolume,
                              playbackInterval, prevVolumeRef, lifeVars, timerVars>>

\* the Enable Audio button, rendered while volume is 0; `ok` is FALSE when
\* postMessage throws
EnableAudioSend(ok) ==
    /\ mounted
    /\ volume = Silent
    /\ IF ok
         THEN /\ VolumeChange(EnableAudioVolume, <<"unMute">>)
              /\ lastOp' = Op("enableAudio", "none")
              /\ UNCHANGED <<muted, lastVolume>>
         ELSE \* the exception leaves the handler before onVolumeChange(50)
              /\ posted' = << >>
              /\ escaped' = TRUE
              /\ lastOp' = Op("enableAudio", "threw")
              /\ PropsUnchanged
              /\ UNCHANGED <<isVideoLoaded, showFallback, iframeKey, bufferTimeout,
                             stallTimer, loadTimer, lastPlayerState, isPlayingRef,
                             awaitUnMute, stallAge, videoAge>>

EnableAudio == EnableAudioSend(TRUE)

\* the sidebar selects another video
SelectVideo(v) ==
    /\ mounted
    /\ v # videoId
    /\ videoId' = v
    \* handleVideoSelect calls setTheme with the sidebar's theme, then the
    \* page's theme effect runs for the new selectedVideo
    /\ currentTheme' = ThemeEffect(SetThemeResult(currentTheme,
                            IF v \in Videos THEN VideoTheme(v) ELSE UnknownTheme), v)
    /\ EffectRun(volume)
    /\ posted' = << >>
    /\ escaped' = FALSE
    /\ stallAge' = -1
    /\ videoAge' = 0
    /\ lastOp' = Op("selectVideo", IF stallTimer >= 0 THEN "cancelled" ELSE "none")
    /\ UNCHANGED <<volume, muted, lastVolume, awaitUnMute, lifeVars, timerVars>>

\* setTheme(id) from a consumer of the theme context; a changed theme
\* re-renders the page with a new setTheme, which re-runs its theme effect
SetTheme(id) ==
    /\ mounted
    /\ currentTheme' = IF SetThemeResult(currentTheme, id) # currentTheme
                         THEN ThemeEffect(SetThemeResult(currentTheme, id), videoId)
                         ELSE currentTheme
    /\ posted' = << >>
    /\ escaped' = FALSE
    /\ lastOp' = Op("setTheme", IF id \in Themes THEN "hit" ELSE "miss")
    /\ UNCHANGED <<videoId, volume, muted, lastVolume, playbackInterval,
                   prevVolumeRef, lifeVars, timerVars>>
    /\ UNCHANGED <<isVideoLoaded, showFallback, iframeKey, bufferTimeout, stallTimer,
                   loadTimer, lastPlayerState, isPlayingRef, awaitUnMute, stallAge,
                   videoAge>>

\* one iteration of the 500 ms command loop; a throwing postMessage is
\* caught and logged
PlaybackIntervalSend(ok) ==
    /\ playbackInterval # NoInterval
    /\ posted' = IF ok THEN LoopCommands(playbackInterval, prevVolumeRef) ELSE << >>
    /\ escaped' = FALSE
    /\ awaitUnMute' = (awaitUnMute /\ "unMute" \notin Range(posted'))
    /\ lastOp' = Op("playbackInterval", IF ok THEN "none" ELSE "caught")
    /\ PropsUnchanged
    /\ UNCHANGED <<isVideoLoaded, showFallback, iframeKey, bufferTimeout, stallTimer,
                   loadTimer, lastPlayerState, isPlayingRef, stallAge, videoAge>>

PlaybackInterval == PlaybackIntervalSend(TRUE)

\* one iteration of the 1000 ms play check; nothing catches a throwing
\* postMessage, and after the unmount there is no iframe to post to
CheckIntervalSend(ok) ==
    /\ checkInterval
    /\ LET sends == ~isPlayingRef /\ mounted
       IN /\ ok \/ sends
          /\ posted' = IF sends /\ ok THEN <<"playVideo">> ELSE << >>
          /\ escaped' = ~ok
          /\ lastOp' = Op("checkInterval", IF ok THEN "none" ELSE "threw")
    /\ PropsUnchanged
    /\ UNCHANGED <<isVideoLoaded, showFallback, iframeKey, bufferTimeout, stallTimer,
                   loadTimer, lastPlayerState, isPlayingRef, awaitUnMute, stallAge,
                   videoAge>>

CheckInterval == CheckIntervalSend(TRUE)

\* a message without data, or whose data does not parse
IgnoredMessage ==
    /\ listener
    /\ posted' = << >>
    /\ escaped' = FALSE
    /\ lastOp' = Op("message", "ignored")
    /\ PropsUnchanged
    /\ UNCHANGED <<isVideoLoaded, showFallback, iframeKey, bufferTimeout, stallTimer,
                   loadTimer, lastPlayerState, isPlayingRef, awaitUnMute, stallAge,
                   videoAge>>

\* the player's onReady message; nothing catches a throwing postMessage
OnReadySend(ok) ==
    /\ listener
    /\ posted' = IF ok THEN <<"playVideo">> ELSE << >>
    /\ escaped' = ~ok
    /\ lastOp' = Op("onReady", IF ok THEN "none" ELSE "threw")
    /\ PropsUnchanged
    /\ UNCHANGED <<isVideoLoaded, showFallback, iframeKey, bufferTimeout, stallTimer,
                   loadTimer, lastPlayerState, isPlayingRef, awaitUnMute, stallAge,
                   videoAge>>

OnReady == OnReadySend(TRUE)

\* the player's onStateChange message; a throwing postMessage leaves the
\* handler after the refs were set and before the stall timeout is handled
OnStateChangeSend(info, ok) ==
    LET r == IF ok THEN StallAfterEvent(info, bufferTimeout, stallTimer)
                   ELSE [ref |-> bufferTimeout, left |-> stallTimer, did |-> "threw"]
    IN /\ listener
       /\ ok \/ info # Playing
       /\ r.did = "armed" => iframeKey < MaxReloads
       /\ lastPlayerState' = info
       /\ isPlayingRef' = (info = Playing)
       /\ posted' = IF info # Playing /\ ok THEN <<"playVideo">> ELSE << >>
       /\ escaped' = ~ok
       /\ bufferTimeout' = r.ref
       /\ stallTimer' = r.left
       /\ stallAge' = IF info = Playing THEN -1
                      ELSE IF info \in {Buffering, Unstarted} /\ stallAge = -1 THEN 0
                      ELSE stallAge
       /\ lastOp' = Op("onStateChange", r.did)
       /\ PropsUnchanged
       /\ UNCHANGED <<isVideoLoaded, showFallback, iframeKey, loadTimer, awaitUnMute,
                      videoAge>>

OnStateChange(info) == OnStateChangeSend(info, TRUE)

\* the load timeout's callback
LoadTimerFires ==
    /\ loadTimer = 0
    /\ isVideoLoaded' = TRUE
    /\ showFallback' = FALSE
    /\ loadTimer' = -1
    /\ posted' = << >>
    /\ escaped' = FALSE
    /\ lastOp' = Op("loadTimer", "none")
    /\ PropsUnchanged
    /\ UNCHANGED <<iframeKey, bufferTimeout, stallTimer, lastPlayerState, isPlayingRef,
                   awaitUnMute, stallAge, videoAge>>

\* the stall timeout's callback: the forced reload
StallTimerFires ==
    /\ stallTimer = 0
    /\ iframeKey' = iframeKey + 1
    /\ bufferTimeout' = FALSE
    /\ stallTimer' = -1
    /\ stallAge' = -1
    /\ posted' = << >>
    /\ escaped' = FALSE
    /\ lastOp' = Op("stallTimer", "reload")
    /\ PropsUnchanged
    /\ UNCHANGED <<isVideoLoaded, showFallback, loadTimer, lastPlayerState,
                   isPlayingRef, awaitUnMute, videoAge>>

\* a second passes: no timeout is due
Elapse ==
    /\ loadTimer # 0
    /\ stallTimer # 0
    /\ loadTimer' = IF loadTimer > 0 THEN loadTimer - 1 ELSE loadTimer
    /\ stallTimer' = IF stallTimer > 0 THEN stallTimer - 1 ELSE stallTimer
    /\ stallAge' = IF stallAge >= 0 /\ stallAge <= StallSeconds
                     THEN stallAge + 1 ELSE stallAge
    /\ videoAge' = IF videoAge >= 0 /\ videoAge <= LoadSeconds
                     THEN videoAge + 1 ELSE videoAge
    /\ posted' = << >>
    /\ escaped' = FALSE
    /\ lastOp' = Op("elapse", "none")
    /\ PropsUnchanged
    /\ UNCHANGED <<isVideoLoaded, showFallback, iframeKey, bufferTimeout,
                   lastPlayerState, isPlayingRef, awaitUnMute>>

\* the page unmounts: the cleanup of the main effect runs; the prevVolumeRef
\* effect and the checkInterval effect return no cleanup
Unmount ==
    /\ mounted
    /\ mounted' = FALSE
    /\ loadTimer' = -1
    /\ playbackInterval' = NoInterval
    /\ listener' = FALSE
    /\ stallTimer' = CleanupStall(bufferTimeout, stallTimer)
    /\ posted' = << >>
    /\ escaped' = FALSE
    /\ stallAge' = -1
    /\ videoAge' = -1
    /\ lastOp' = Op("unmount", "none")
    /\ UNCHANGED <<videoId, currentTheme, volume, muted, lastVolume, prevVolumeRef,
                   checkInterval, timerVars>>
    /\ UNCHANGED <<isVideoLoaded, showFallback, iframeKey, bufferTimeout,
                   lastPlayerState, isPlayingRef, awaitUnMute>>

-----------------------------------------------------------------------------
(* Specifications *)

\* the fields a stored record may hold
StoredCounts == {Num(k) : k \in 0..MaxCount - 1} \cup {Str(0), Undef}
StoredDates  == {DateStr(0 - g) : g \in 0..MaxGap} \cup {Str(0), Undef}

\* what localStorage may hold when the page opens
StoredItems ==
    {NoItem, EmptyTxt, BadTxt, NullTxt, PrimTxt}
      \cup {ObjTxt(c, l, t) : c \in StoredCounts, l \in StoredDates, t \in StoredCounts}

InitCommon ==
    /\ timer = InitialTimer
    /\ interval = FALSE
    /\ today = 0
    /\ streak = [h \in Hooks |-> DefaultStreak(0)]
    /\ rendered = [h \in Hooks |-> DefaultStreak(0)]
    /\ dirty = [h \in Hooks |-> FALSE]
    /\ saving = [h \in Hooks |-> FALSE]
    /\ lastMut = [h \in Hooks |-> "none"]
    /\ mountPc = 0
    /\ returned = Undef
    /\ lastOp = Op("init", "none")
    /\ run = -1
    /\ roundTrip = NoRoundTrip
    /\ isMinimized = FALSE
    /\ cue = "none"
    /\ MediaInit

\* the page opens on a first visit or on a record of the day before
Init ==
    /\ version \in Versions
    /\ expected = -1
    /\ storage \in {NoItem, ObjTxt(Num(1), DateStr(0 - 1), Num(1))}
    /\ InitCommon

Next ==
    \/ ToggleTimer
    \/ PauseResumeOnly
    \/ ResetTimer
    \/ ExpandTimer
    \/ Tick
    \/ TimerEffect
    \/ MountStep
    \/ Render
    \/ SaveStep

\* the page with its timer
Spec == Init /\ [][Next]_vars

\* the hook under any calls of its consumers, on any stored item
InitStreak ==
    /\ version = "streak"
    /\ expected = -1
    /\ storage \in StoredItems
    /\ InitCommon

NextStreak ==
    \/ MountStep
    \/ Render
    \/ SaveStep
    \/ \E h \in Hooks : IncrementStreak(h)
    \/ \E h \in Hooks : ResetStreak(h)
    \/ NextDay

SpecStreak == InitStreak /\ [][NextStreak]_vars

\* the page with the media controller: the first Index revision with the
\* timer of the alarm revision, left idle
InitMedia ==
    /\ version = "alarm"
    /\ expected = -1
    /\ storage = NoItem
    /\ InitCommon

NextMedia ==
    \/ HandleMuteToggle
    \/ HandleVolumeToggle
    \/ \E n \in SliderValues : HandleVolumeSliderChange(n)
    \/ EnableAudio
    \/ \E v \in Videos : SelectVideo(v)
    \/ PlaybackInterval
    \/ CheckInterval
    \/ IgnoredMessage
    \/ OnReady
    \/ \E info \in PlayerStates : OnStateChange(info)
    \/ LoadTimerFires
    \/ StallTimerFires
    \/ Elapse

SpecMedia == InitMedia /\ [][NextMedia]_vars

\* the page's own state: the selected video, the theme and the volume
NextPage ==
    \/ \E v \in Videos \cup {Unlisted} : SelectVideo(v)
    \/ \E id \in Themes \cup {UnknownTheme} : SetTheme(id)
    \/ HandleMuteToggle
    \/ HandleVolumeToggle
    \/ \E n \in SliderValues : HandleVolumeSliderChange(n)
    \/ EnableAudio

SpecPage == InitMedia /\ [][NextPage]_vars

\* the controller with throwing sends and the unmount of the page
NextLife ==
    \/ HandleVolumeToggle
    \/ \E ok \in BOOLEAN : EnableAudioSend(ok)
    \/ \E ok \in BOOLEAN : PlaybackIntervalSend(ok)
    \/ \E ok \in BOOLEAN : CheckIntervalSend(ok)
    \/ \E ok \in BOOLEAN : OnReadySend(ok)
    \/ \E info \in PlayerStates, ok \in BOOLEAN : OnStateChangeSend(info, ok)
    \/ LoadTimerFires
    \/ StallTimerFires
    \/ Elapse
    \/ Unmount

SpecLife == InitMedia /\ [][NextLife]_vars

\* the timer and the page each call useStreak; storage holds a record of
\* today, and the increments are counted
InitPair ==
    /\ version = "streak"
    /\ \E k \in 0..(MaxCount - 1) :
          /\ storage = ObjTxt(Num(k), DateStr(0), Num(k))
          /\ expected = k
    /\ InitCommon

NextPair ==
    \/ MountStep
    \/ Render
    \/ SaveStep
    \/ \E h \in Hooks : IncrementStreak(h)

SpecPair == InitPair /\ [][NextPair]_vars


-----------------------------------------------------------------------------
(* Claims about the timer, checked under Spec *)

\* the length of a fresh Work session in seconds
W == Remaining(InitialTimer)

\* C1: starting from a fresh Work session of W seconds and applying ticks with
\* no other operation in between, after exactly W ticks the mode has flipped
\* to Break, remainingSeconds is the break duration and running is false.
C1_FlippedAfterWTicks ==
    run = W =>
        /\ ~timer.isSession
        /\ Remaining(timer) = 60 * timer.breakLength
        /\ ~timer.isActive

\* C2: whenever a tick completes a session (Work or Break), the resulting
\* state has running = false.
C2_CompletionStops ==
    (lastOp.op = "tick" /\ lastOp.arg \in {"work", "break"}) => ~timer.isActive

\* C3: pause followed immediately by start, with no tick in between, leaves
\* minutes, seconds and mode exactly as they were before the pause.
C3_PauseResumeRoundTrip ==
    roundTrip.phase = "resumed" =>
        /\ timer.minutes = roundTrip.minutes
        /\ timer.seconds = roundTrip.seconds
        /\ timer.isSession = roundTrip.isSession
        /\ timer.isActive

\* a running timer was paused in the middle of a session and started again
C3_Witness ==
    /\ roundTrip.phase = "resumed"
    /\ lastOp.arg = "start"
    /\ 0 < Remaining(timer)
    /\ Remaining(timer) < ModeDuration(timer)

\* C4: reset, from any state, sets remainingSeconds to the duration of the
\* current mode and running to false, and leaves the mode and both configured
\* durations unchanged.
C4_ResetRestoresModeDuration ==
    [][ResetTimer =>
        /\ Remaining(timer') = ModeDuration(timer)
        /\ ~timer'.isActive
        /\ timer'.isSession = timer.isSession
        /\ timer'.sessionLength = timer.sessionLength
        /\ timer'.breakLength = timer.breakLength]_vars

\* a reset has acted on a Break session
C4_Witness ==
    /\ lastOp.op = "resetTimer"
    /\ ~timer.isSession
    /\ Remaining(timer) = 60 * DefaultBreakLength

\* minutes and seconds are in range
TimeInRange(t) == t.minutes >= 0 /\ t.seconds >= 0 /\ t.seconds <= MaxSeconds

\* C5: remainingSeconds is never negative (minutes >= 0, 0 <= seconds <= 59),
\* and every tick either decreases it by exactly one with the mode unchanged
\* or, only when it was 0, flips the mode exactly once.
C5_TickDecrementsOrFlips ==
    /\ TimeInRange(timer)
    /\ [][/\ TimeInRange(timer')
          /\ Tick =>
               \/ /\ Remaining(timer) > 0
                  /\ Remaining(timer') = Remaining(timer) - 1
                  /\ timer'.isSession = timer.isSession
               \/ /\ Remaining(timer) = 0
                  /\ timer'.isSession = ~timer.isSession
                  /\ Remaining(timer') = ModeDuration(timer')]_vars

\* a tick has borrowed from the minutes, and a tick has flipped the mode
C5_Witness ==
    /\ lastOp.op = "tick"
    /\ \/ timer.seconds = MaxSeconds /\ timer.minutes = DefaultSessionLength - 1
       \/ lastOp.arg = "work" /\ ~timer.isSession /\ Fresh(timer)

\* C6: every completion of a Work session increments the streak count by
\* exactly one and totalSessions by exactly one, and the completion of a Break
\* session leaves the streak record unchanged.
C6_WorkCompletionIncrements ==
    [][/\ (Tick /\ Completes(timer) /\ timer.isSession) =>
             /\ streak'["timer"].count = Num(streak["timer"].count.n + 1)
             /\ streak'["timer"].totalSessions = Num(streak["timer"].totalSessions.n + 1)
       /\ (Tick /\ Completes(timer) /\ ~timer.isSession) => streak' = streak]_vars

-----------------------------------------------------------------------------
(* Claims about the streak hook, checked under SpecStreak *)

\* C7: incrementStreak returns the post-increment count, the count that is
\* persisted for this increment, for any sequence of increments.
C7_ReturnsPersistedCount ==
    lastOp.op = "incrementStreak" => returned = streak[lastOp.arg].count

\* the load effect of an instance has just read a stored record
LoadedRecord ==
    /\ lastOp.op = "load"
    /\ storage.k = "obj"

\* C8: load of a stored record whose lastUpdate is exactly one calendar day
\* before today keeps count and totalSessions and sets lastUpdate to today.
C8_YesterdayContinues ==
    (LoadedRecord /\ storage.lastUpdate = DateStr(today - 1)) =>
        /\ streak[lastOp.arg].count = storage.count
        /\ streak[lastOp.arg].totalSessions = storage.totalSessions
        /\ streak[lastOp.arg].lastUpdate = DateStr(today)

\* a record of yesterday with a streak of 1 has been loaded
C8_Witness ==
    /\ LoadedRecord
    /\ storage = ObjTxt(Num(1), DateStr(today - 1), Num(1))
    /\ streak[lastOp.arg] = StreakData(Num(1), DateStr(today), Num(1))

\* C9: load of a stored record (numeric totalSessions) whose lastUpdate is two
\* or more calendar days before today yields count = 0 with totalSessions equal
\* to the stored totalSessions.
C9_GapResetsCount ==
    (/\ LoadedRecord
     /\ storage.lastUpdate.t = "date"
     /\ storage.lastUpdate.n <= today - 2
     /\ storage.totalSessions.t = "num") =>
        /\ streak[lastOp.arg].count = Num(0)
        /\ streak[lastOp.arg].totalSessions = storage.totalSessions

\* a record of two days ago with a streak of 1 has been loaded
C9_Witness ==
    /\ LoadedRecord
    /\ storage = ObjTxt(Num(1), DateStr(today - 2), Num(1))
    /\ streak[lastOp.arg] = StreakData(Num(0), DateStr(today), Num(1))

\* a stored value that is not a well-formed StreakData record
Malformed(item) ==
    \/ item.k \in {"bad", "null", "prim"}
    \/ /\ item.k = "obj"
       /\ \/ item.count.t # "num"
          \/ item.lastUpdate.t # "date"
          \/ item.totalSessions.t # "num"

\* C10: for every malformed stored value load does not throw and the in-memory
\* record is the fresh zero record (count 0, totalSessions 0, lastUpdate today).
C10_MalformedFallsBack ==
    (lastOp.op = "load" /\ Malformed(storage)) =>
        streak[lastOp.arg] = DefaultStreak(today)

\* a save effect that runs for h: the next one of the commit is h's
Saves(h) == SaveStep /\ FirstSaving = h

C12_TotalNeverDecreases ==
    [][\A h \in Hooks :
         (/\ streak[h].totalSessions.t = "num"
          /\ streak'[h].totalSessions.t = "num") =>
             streak'[h].totalSessions.n >= streak[h].totalSessions.n]_vars

\* a record with one lifetime session has just been reset
C12_Witness ==
    /\ lastOp.op = "resetStreak"
    /\ streak[lastOp.arg].count = Num(0)
    /\ streak[lastOp.arg].totalSessions = Num(1)

\* C13: once the save effect that follows a mutation has run and no further
\* mutation is pending, the persisted record equals the in-memory record in
\* count, lastUpdate and totalSessions.
C13_WrittenThrough ==
    (/\ lastOp.op = "save"
     /\ CommitDone
     /\ lastMut[lastOp.arg] # "none"
     /\ ~dirty[lastOp.arg]) =>
        storage = ObjTxt(streak[lastOp.arg].count,
                         streak[lastOp.arg].lastUpdate,
                         streak[lastOp.arg].totalSessions)

\* C14: when the volume goes from 0 to n > 0 an unMute is posted before the
\* first setVolume, on every path (mute button, Enable Audio, volume callback).
C14_UnMuteBeforeSetVolume ==
    /\ ~(awaitUnMute /\ "setVolume" \in Range(posted))
    /\ \A i, j \in DOMAIN posted :
          (posted[i] = "unMute" /\ posted[j] = "setVolume") => i < j

\* C15: while the volume is 0 every iteration of the command loop posts mute
\* and neither setVolume nor unMute.
C15_SilentLoopMutes ==
    (lastOp.op = "playbackInterval" /\ volume = Silent) => posted = <<"mute">>

\* the command loop has run after the page's mute button set the volume to 0
C15_Witness ==
    /\ lastOp.op = "playbackInterval"
    /\ muted
    /\ volume = Silent
    /\ posted = <<"mute">>

\* C16: a Buffering/Unstarted event not followed by Playing within 3 s is
\* answered by one forced reload at the 3 s mark, whatever else arrives in
\* between: the stall never gets older than 3 s, and a pending stall timeout
\* is the one of the stall being timed.
C16_StallReloadsOnce ==
    /\ stallAge <= StallSeconds
    /\ stallTimer >= 0 => (stallAge >= 0 /\ stallTimer = StallSeconds - stallAge)

\* C17: a Playing event that arrives while the stall timeout is pending
\* cancels it: the handle is cleared and no reload is pending.
C17_PlayingCancelsReload ==
    [][(OnStateChange(Playing) /\ stallTimer >= 0) =>
           (~bufferTimeout' /\ stallTimer' = -1 /\ iframeKey' = iframeKey)]_vars

\* a Playing event has cancelled a pending stall timeout
C17_Witness ==
    /\ lastOp = Op("onStateChange", "cancelled")
    /\ isPlayingRef
    /\ ~bufferTimeout
    /\ stallTimer = -1
    /\ iframeKey = 0

\* C18: a videoId change while the stall timeout is pending cancels it, so no
\* reload of the old video's stall can fire after the switch.
C18_VideoChangeCancelsStall ==
    [][((\E v \in Videos : SelectVideo(v)) /\ stallTimer >= 0) =>
           (stallTimer' = -1 /\ iframeKey' = iframeKey)]_vars

\* another video was selected while a stall timeout was pending
C18_Witness ==
    /\ lastOp = Op("selectVideo", "cancelled")
    /\ videoId # 1
    /\ stallTimer = -1
    /\ iframeKey = 0

\* C19: right after a videoId change the video is not loaded and the fallback
\* is shown, and 2 s after the change (the timeouts due by then have run, the
\* videoId has not changed again) the video is loaded and the fallback hidden.
C19_LoadedAfterGrace ==
    /\ lastOp.op = "selectVideo" => (~isVideoLoaded /\ showFallback)
    /\ (videoAge = LoadSeconds /\ loadTimer # 0) => (isVideoLoaded /\ ~showFallback)

\* C20: every iteration of the 500 ms command loop posts a play command and a
\* volume or mute command, whatever the last observed player state.
C20_LoopReassertsPlayAndVolume ==
    lastOp.op = "playbackInterval" =>
        /\ "playVideo" \in Range(posted)
        /\ \E c \in {"mute", "setVolume"} : c \in Range(posted)

\* C26: the stall timeout's handle is non-null only while a stall timeout is
\* pending, so that after an effect re-run or after the timeout fired a
\* Buffering/Unstarted event arms a fresh one.
C26_HandleOnlyWhilePending ==
    bufferTimeout => stallTimer >= 0

\* C27: a change of the volume alone leaves isVideoLoaded and showFallback as
\* they are and does not restart the load timeout.
C27_VolumeLeavesLoading ==
    [][(volume' # volume /\ videoId' = videoId) =>
           /\ isVideoLoaded' = isVideoLoaded
           /\ showFallback' = showFallback
           /\ loadTimer' = loadTimer]_vars

\* C30: in the page state muted is true exactly when the volume is 0, after
\* any sequence of mute button clicks, Enable Audio clicks and volume
\* callbacks.
C30_MutedIffSilent ==
    muted <=> volume = Silent

\* a well-formed stored StreakData record
WellFormed(item) == item.k = "obj" /\ ~Malformed(item)

\* C28: when storage holds a well-formed record, no step of the hook, mount
\* included, overwrites it with a record of fewer totalSessions: the default
\* zero record is never persisted over it, even transiently.
C28_MountKeepsStored ==
    [][WellFormed(storage) =>
           /\ WellFormed(storage')
           /\ storage'.totalSessions.n >= storage.totalSessions.n]_vars

\* C29: with the timer's and the page's instance of the hook mounted, once
\* every pending render and save has run the persisted count is the stored
\* starting count plus the number of increments performed.
C29_NoIncrementLost ==
    (Ready /\ \A h \in Hooks : ~dirty[h]) =>
        (storage.k = "obj" /\ storage.count = Num(expected))

\* C25: one tick driver at most is active for the timer across start, pause,
\* reset and completions, and no tick is applied while isActive is false.
C25_TicksOnlyWhileRunning ==
    [][Tick => timer.isActive]_vars

\* C23: every completion of a Work session triggers the alarm, in the full
\* and in the minimized view, and the tick's state transition is the same
\* whether or not the alarm can be played.
C23_WorkCompletionCues ==
    [][(Tick /\ version = "alarm" /\ Completes(timer) /\ timer.isSession) =>
           /\ cue' \in {"played", "rejected"}
           /\ timer' = TickUpdater(timer, version)]_vars

\* C24: a theme or video lookup that misses applies the default: after
\* setTheme with an id that is not in the themes list, and after a video that
\* is not in the videos list was selected, the current theme is the default
\* theme (themes[0], or 'emerald', the default of the video lookup).
C24_MissAppliesDefault ==
    (\/ lastOp = Op("setTheme", "miss")
     \/ lastOp.op = "selectVideo" /\ videoId = Unlisted) =>
        currentTheme \in {DefaultTheme, FallbackTheme}

\* C21: after the unmount nothing the controller created is still scheduled
\* or registered: load timeout, command loop, play check, stall timeout and
\* message listener are released.
C21_UnmountReleasesAll ==
    ~mounted =>
        /\ loadTimer = -1
        /\ stallTimer = -1
        /\ playbackInterval = NoInterval
        /\ ~checkInterval
        /\ ~listener

\* C22: a throwing send from the command loop, the event handler, the play
\* check or the Enable Audio button never leaves the controller, and the
\* controller state is what it is after a send that succeeded.
C22_SendFailureContained ==
    [][/\ ~escaped'
       /\ \A info \in PlayerStates :
             OnStateChangeSend(info, FALSE) =>
                 /\ bufferTimeout' = StallAfterEvent(info, bufferTimeout, stallTimer).ref
                 /\ stallTimer' = StallAfterEvent(info, bufferTimeout, stallTimer).left
       /\ EnableAudioSend(FALSE) => volume' = EnableAudioVolume]_vars

=============================================================================
